---- MODULE Spec2Model ----
(***************************************************************************)
(* A model of examples/performance_benchmarks.py: the random generator of  *)
(* an InteractionOperator (artificial_molecular_operator) and the three    *)
(* benchmark functions that time one external operation each.              *)
(*                                                                         *)
(* numpy.random.randn() returns a sample of a continuous distribution: the *)
(* k-th sample of a run is represented by the number k (k >= 1), so two    *)
(* cells hold the same number exactly when they were written from the same *)
(* sample, and 0 is the value numpy.zeros puts in a cell never written.    *)
(* numpy.random.randint(m) is a nondeterministic choice in 0..m-1.         *)
(***************************************************************************)
EXTENDS Integers, Sequences, FiniteSets

\* Largest n_qubits given to benchmark_molecular_operator_jordan_wigner and
\* benchmark_jordan_wigner_sparse.
MaxN == 4
\* Largest n_qubits and term_length given to
\* benchmark_fermion_math_and_normal_order.
MaxQ == 2
MaxLen == 1

VARIABLES
    scenario,               \* "A", "B" or "C": the benchmark function running
    pc,                     \* the statement the run is at
    n_qubits, term_length,  \* the arguments of the benchmark function
    p, q, r, s,             \* loop variables of artificial_molecular_operator
    constant,
    one_body_coefficients,
    two_body_coefficients,
    randn_count,            \* numpy.random.randn() samples taken so far
    assigned,               \* quadruples at which lines 66-68 were executed
    operators_a, operators_b,
    operator_a, operator_b,
    operator_number,        \* iterations of the loop of line 123 completed
    fermion_term_a, fermion_term_b,
    trace                   \* timestamps, external calls and random sampling

vars == <<scenario, pc, n_qubits, term_length, p, q, r, s, constant,
          one_body_coefficients, two_body_coefficients, randn_count, assigned,
          operators_a, operators_b, operator_a, operator_b, operator_number,
          fermion_term_a, fermion_term_b, trace>>

genVars == <<p, q, r, s, constant, one_body_coefficients,
             two_body_coefficients, assigned>>
mathVars == <<operators_a, operators_b, operator_a, operator_b,
              operator_number, fermion_term_a, fermion_term_b>>

Modes == 0 .. (n_qubits - 1)
Quads == Modes \X Modes \X Modes \X Modes
\* The values of (numpy.random.randint(n_qubits), numpy.random.randint(2)).
Operators == Modes \X {0, 1}
AllOperators == (0 .. (MaxQ - 1)) \X {0, 1}

Min(a, b) == IF a <= b THEN a ELSE b
Max(a, b) == IF a <= b THEN b ELSE a

\* The value a tuple, list or array variable has before the statement that
\* creates it has run.
None == <<>>

\* trace after one more random sample: a run of samples is one "random" event.
Sampled(tr) ==
    IF Len(tr) > 0 /\ tr[Len(tr)] = "random" THEN tr ELSE Append(tr, "random")

Init ==
    /\ scenario \in {"A", "B", "C"}
    /\ IF scenario = "B"
       THEN /\ n_qubits \in 1 .. MaxQ
            /\ term_length \in 0 .. MaxLen
            /\ pc = "math_init"
       ELSE /\ n_qubits \in 0 .. MaxN
            /\ term_length = 0
            /\ pc = "gen_init"
    /\ p = 0 /\ q = 0 /\ r = 0 /\ s = 0
    /\ constant = 0            \* no sample yet: the samples are 1, 2, ...
    /\ one_body_coefficients = None
    /\ two_body_coefficients = None
    /\ randn_count = 0
    /\ assigned = {}
    /\ operators_a = <<>> /\ operators_b = <<>>
    /\ operator_a = None /\ operator_b = None
    /\ operator_number = 0
    /\ fermion_term_a = None /\ fermion_term_b = None
    /\ trace = <<>>

-----------------------------------------------------------------------------
(* artificial_molecular_operator *)

\* Lines 28-31, and the entry into the loops of lines 34-35.
Initialize ==
    /\ pc = "gen_init"
    /\ randn_count' = randn_count + 1
    /\ constant' = randn_count'
    /\ one_body_coefficients' = [c \in Modes \X Modes |-> 0]
    /\ two_body_coefficients' = [c \in Quads |-> 0]
    /\ trace' = Sampled(trace)
    /\ pc' = IF n_qubits > 0 THEN "one_body" ELSE "gen_return"
    /\ UNCHANGED <<scenario, n_qubits, term_length, p, q, r, s, assigned>>
    /\ UNCHANGED mathVars

\* Line 38: (p <= p) and (p % 2 == q % 2).
OneBodyGuardAnyParity(pp, qq) == pp <= pp
OneBodyGuard(pp, qq) == (pp <= pp) /\ (pp % 2 = qq % 2)

\* Lines 38-40, then the entry into the loops of lines 43-44.
OneBodyTerm ==
    /\ pc = "one_body"
    /\ OneBodyGuard(p, q)
    /\ randn_count' = randn_count + 1
    /\ one_body_coefficients' =
           [one_body_coefficients EXCEPT ![<<p, q>>] = randn_count',
                                         ![<<q, p>>] = randn_count']
    /\ trace' = Sampled(trace)
    /\ r' = 0 /\ s' = 0
    /\ pc' = "two_body"
    /\ UNCHANGED <<scenario, n_qubits, term_length, p, q, constant,
                   two_body_coefficients, assigned>>
    /\ UNCHANGED mathVars

\* Line 38 false, then the entry into the loops of lines 43-44.
OneBodySkip ==
    /\ pc = "one_body"
    /\ ~OneBodyGuard(p, q)
    /\ r' = 0 /\ s' = 0
    /\ pc' = "two_body"
    /\ UNCHANGED <<scenario, n_qubits, term_length, p, q, constant,
                   one_body_coefficients, two_body_coefficients, randn_count,
                   assigned, trace>>
    /\ UNCHANGED mathVars

\* The next iteration of the four nested loops of lines 34, 35, 43, 44 after
\* the body of the innermost one has run at (p, q, r, s).
KeepLooping ==
    IF s < n_qubits - 1
    THEN /\ s' = s + 1
         /\ UNCHANGED <<p, q, r, pc>>
    ELSE IF r < n_qubits - 1
    THEN /\ r' = r + 1 /\ s' = 0
         /\ UNCHANGED <<p, q, pc>>
    ELSE IF q < n_qubits - 1
    THEN /\ q' = q + 1 /\ pc' = "one_body"
         /\ UNCHANGED <<p, r, s>>
    ELSE IF p < n_qubits - 1
    THEN /\ p' = p + 1 /\ q' = 0 /\ pc' = "one_body"
         /\ UNCHANGED <<r, s>>
    ELSE /\ pc' = "gen_return"
         /\ UNCHANGED <<p, q, r, s>>

\* Line 47.
IsZeroTermBoth(pp, qq, rr, ss) == (pp = qq) /\ (rr = ss)
IsZeroTerm(pp, qq, rr, ss) == (pp = qq) \/ (rr = ss)

\* Lines 51-63: the quadruple is skipped as the complex conjugate of another.
IsSkippedConjugateMax(pp, qq, rr, ss) ==
    /\ <<pp, qq, rr, ss>> # <<ss, rr, qq, pp>>
    /\ LET unique_indices == Cardinality({pp, qq, rr, ss})
       IN  \/ unique_indices = 4 /\ Min(rr, ss) <= Max(pp, qq)
           \/ unique_indices = 2 /\ qq < pp
IsSkippedConjugate(pp, qq, rr, ss) ==
    /\ <<pp, qq, rr, ss>> # <<ss, rr, qq, pp>>
    /\ LET unique_indices == Cardinality({pp, qq, rr, ss})
       IN  \/ unique_indices = 4 /\ Min(rr, ss) <= Min(pp, qq)
           \/ unique_indices = 2 /\ qq < pp

\* Line 67: the cell that receives a copy of the value of (p, q, r, s).
ConjugateSwapped(pp, qq, rr, ss) == <<rr, ss, pp, qq>>
Conjugate(pp, qq, rr, ss) == <<ss, rr, qq, pp>>

\* Lines 47-48.
SkipZeroTerm ==
    /\ pc = "two_body"
    /\ IsZeroTerm(p, q, r, s)
    /\ KeepLooping
    /\ UNCHANGED <<scenario, n_qubits, term_length, constant,
                   one_body_coefficients, two_body_coefficients, randn_count,
                   assigned, trace>>
    /\ UNCHANGED mathVars

\* Lines 51-63.
SkipConjugate ==
    /\ pc = "two_body"
    /\ ~IsZeroTerm(p, q, r, s)
    /\ IsSkippedConjugate(p, q, r, s)
    /\ KeepLooping
    /\ UNCHANGED <<scenario, n_qubits, term_length, constant,
                   one_body_coefficients, two_body_coefficients, randn_count,
                   assigned, trace>>
    /\ UNCHANGED mathVars

\* Lines 66-68 with line 67 left out.
AddTwoBodyNoCopy ==
    /\ pc = "two_body"
    /\ ~IsZeroTerm(p, q, r, s)
    /\ ~IsSkippedConjugate(p, q, r, s)
    /\ randn_count' = randn_count + 1
    /\ two_body_coefficients' =
           [two_body_coefficients EXCEPT ![<<p, q, r, s>>] = randn_count']
    /\ assigned' = assigned \cup {<<p, q, r, s>>}
    /\ trace' = Sampled(trace)
    /\ KeepLooping
    /\ UNCHANGED <<scenario, n_qubits, term_length, constant,
                   one_body_coefficients>>
    /\ UNCHANGED mathVars

\* Lines 66-68.
AddTwoBody ==
    /\ pc = "two_body"
    /\ ~IsZeroTerm(p, q, r, s)
    /\ ~IsSkippedConjugate(p, q, r, s)
    /\ randn_count' = randn_count + 1
    /\ two_body_coefficients' =
           [two_body_coefficients EXCEPT
                ![<<p, q, r, s>>] = randn_count',
                ![Conjugate(p, q, r, s)] = randn_count']
    /\ assigned' = assigned \cup {<<p, q, r, s>>}
    /\ trace' = Sampled(trace)
    /\ KeepLooping
    /\ UNCHANGED <<scenario, n_qubits, term_length, constant,
                   one_body_coefficients>>
    /\ UNCHANGED mathVars

\* Lines 71-73, and the return to the caller (line 88 or line 172).
BuildOperator ==
    /\ pc = "gen_return"
    /\ trace' = Append(trace, "InteractionOperator")
    /\ pc' = IF scenario = "A" THEN "jw_start" ELSE "sparse_convert"
    /\ UNCHANGED <<scenario, n_qubits, term_length, randn_count>>
    /\ UNCHANGED genVars
    /\ UNCHANGED mathVars

-----------------------------------------------------------------------------
(* benchmark_molecular_operator_jordan_wigner *)

\* Line 91.
StartJordanWigner ==
    /\ pc = "jw_start"
    /\ trace' = Append(trace, "time")
    /\ pc' = "jw_call"
    /\ UNCHANGED <<scenario, n_qubits, term_length, randn_count>>
    /\ UNCHANGED genVars
    /\ UNCHANGED mathVars

\* Line 92.
JordanWigner ==
    /\ pc = "jw_call"
    /\ trace' = Append(trace, "jordan_wigner")
    /\ pc' = "jw_end"
    /\ UNCHANGED <<scenario, n_qubits, term_length, randn_count>>
    /\ UNCHANGED genVars
    /\ UNCHANGED mathVars

\* Lines 93-97.
EndJordanWigner ==
    /\ pc = "jw_end"
    /\ trace' = Append(trace, "time")
    /\ pc' = "done"
    /\ UNCHANGED <<scenario, n_qubits, term_length, randn_count>>
    /\ UNCHANGED genVars
    /\ UNCHANGED mathVars

-----------------------------------------------------------------------------
(* benchmark_fermion_math_and_normal_order *)

\* Line 123: the loop runs its body again, or ends.
ForOperatorNumber(done) == IF done < term_length THEN "draw_a" ELSE "term_a"

\* Lines 119-122, then line 123.
InitOperators(a, b) ==
    /\ pc = "math_init"
    /\ operators_a' = <<a>>
    /\ operators_b' = <<b>>
    /\ trace' = Sampled(trace)
    /\ pc' = ForOperatorNumber(0)
    /\ UNCHANGED <<scenario, n_qubits, term_length, randn_count, operator_a,
                   operator_b, operator_number, fermion_term_a, fermion_term_b>>
    /\ UNCHANGED genVars

\* Lines 128 and 136: the condition of the while loop.
IsRepeatNegated(op, ops) == op # ops[Len(ops)]
IsRepeat(op, ops) == op = ops[Len(ops)]

\* Lines 126-127.
DrawA(v) ==
    /\ pc = "draw_a"
    /\ operator_a' = v
    /\ trace' = Sampled(trace)
    /\ pc' = "while_a"
    /\ UNCHANGED <<scenario, n_qubits, term_length, randn_count, operators_a,
                   operators_b, operator_b, operator_number, fermion_term_a,
                   fermion_term_b>>
    /\ UNCHANGED genVars

\* Lines 128-130 with the sample assigned to operator_b.
RedrawAIntoB(v) ==
    /\ pc = "while_a"
    /\ v \in Operators
    /\ IsRepeat(operator_a, operators_a)
    /\ operator_b' = v
    /\ trace' = Sampled(trace)
    /\ UNCHANGED <<scenario, pc, n_qubits, term_length, randn_count,
                   operators_a, operators_b, operator_a, operator_number,
                   fermion_term_a, fermion_term_b>>
    /\ UNCHANGED genVars

\* Lines 128-130: one iteration of the while loop.
RedrawA(v) ==
    /\ pc = "while_a"
    /\ v \in Operators
    /\ IsRepeat(operator_a, operators_a)
    /\ operator_a' = v
    /\ trace' = Sampled(trace)
    /\ UNCHANGED <<scenario, pc, n_qubits, term_length, randn_count,
                   operators_a, operators_b, operator_b, operator_number,
                   fermion_term_a, fermion_term_b>>
    /\ UNCHANGED genVars

\* Line 128 false, then line 131.
AppendA ==
    /\ pc = "while_a"
    /\ ~IsRepeat(operator_a, operators_a)
    /\ operators_a' = operators_a \o <<operator_a>>
    /\ pc' = "draw_b"
    /\ UNCHANGED <<scenario, n_qubits, term_length, randn_count, operators_b,
                   operator_a, operator_b, operator_number, fermion_term_a,
                   fermion_term_b, trace>>
    /\ UNCHANGED genVars

\* Lines 134-135.
DrawB(v) ==
    /\ pc = "draw_b"
    /\ operator_b' = v
    /\ trace' = Sampled(trace)
    /\ pc' = "while_b"
    /\ UNCHANGED <<scenario, n_qubits, term_length, randn_count, operators_a,
                   operators_b, operator_a, operator_number, fermion_term_a,
                   fermion_term_b>>
    /\ UNCHANGED genVars

\* Lines 136-138: one iteration of the while loop.
RedrawB(v) ==
    /\ pc = "while_b"
    /\ v \in Operators
    /\ IsRepeat(operator_b, operators_b)
    /\ operator_b' = v
    /\ trace' = Sampled(trace)
    /\ UNCHANGED <<scenario, pc, n_qubits, term_length, randn_count,
                   operators_a, operators_b, operator_a, operator_number,
                   fermion_term_a, fermion_term_b>>
    /\ UNCHANGED genVars

\* Line 136 false, then line 139 and line 123.
AppendB ==
    /\ pc = "while_b"
    /\ ~IsRepeat(operator_b, operators_b)
    /\ operators_b' = operators_b \o <<operator_b>>
    /\ operator_number' = operator_number + 1
    /\ pc' = ForOperatorNumber(operator_number')
    /\ UNCHANGED <<scenario, n_qubits, term_length, randn_count, operators_a,
                   operator_a, operator_b, fermion_term_a, fermion_term_b,
                   trace>>
    /\ UNCHANGED genVars

\* Lines 142-143: FermionOperator(tuple(operators_a), float(randn())), kept
\* as the pair of its arguments.
MakeTermA ==
    /\ pc = "term_a"
    /\ randn_count' = randn_count + 1
    /\ fermion_term_a' = <<operators_a, randn_count'>>
    /\ trace' = Append(Sampled(trace), "FermionOperator")
    /\ pc' = "term_b"
    /\ UNCHANGED <<scenario, n_qubits, term_length, operators_a, operators_b,
                   operator_a, operator_b, operator_number, fermion_term_b>>
    /\ UNCHANGED genVars

\* Lines 144-145.
MakeTermB ==
    /\ pc = "term_b"
    /\ randn_count' = randn_count + 1
    /\ fermion_term_b' = <<operators_b, randn_count'>>
    /\ trace' = Append(Sampled(trace), "FermionOperator")
    /\ pc' = "math_sum"
    /\ UNCHANGED <<scenario, n_qubits, term_length, operators_a, operators_b,
                   operator_a, operator_b, operator_number, fermion_term_a>>
    /\ UNCHANGED genVars

\* Line 146.
SumTerms ==
    /\ pc = "math_sum"
    /\ trace' = Append(trace, "add")
    /\ pc' = "math_start"
    /\ UNCHANGED <<scenario, n_qubits, term_length, randn_count>>
    /\ UNCHANGED genVars
    /\ UNCHANGED mathVars

\* Line 149.
StartMath ==
    /\ pc = "math_start"
    /\ trace' = Append(trace, "time")
    /\ pc' = "math_power"
    /\ UNCHANGED <<scenario, n_qubits, term_length, randn_count>>
    /\ UNCHANGED genVars
    /\ UNCHANGED mathVars

\* Line 150.
Exponentiate ==
    /\ pc = "math_power"
    /\ trace' = Append(trace, "power")
    /\ pc' = "math_end"
    /\ UNCHANGED <<scenario, n_qubits, term_length, randn_count>>
    /\ UNCHANGED genVars
    /\ UNCHANGED mathVars

\* Line 151.
EndMath ==
    /\ pc = "math_end"
    /\ trace' = Append(trace, "time")
    /\ pc' = "order_start"
    /\ UNCHANGED <<scenario, n_qubits, term_length, randn_count>>
    /\ UNCHANGED genVars
    /\ UNCHANGED mathVars

\* Line 154 left out: start_time keeps the value of line 149.
StartNormalOrderMissing ==
    /\ pc = "order_start"
    /\ pc' = "order_call"
    /\ UNCHANGED <<scenario, n_qubits, term_length, randn_count, trace>>
    /\ UNCHANGED genVars
    /\ UNCHANGED mathVars

\* Line 154.
StartNormalOrder ==
    /\ pc = "order_start"
    /\ trace' = Append(trace, "time")
    /\ pc' = "order_call"
    /\ UNCHANGED <<scenario, n_qubits, term_length, randn_count>>
    /\ UNCHANGED genVars
    /\ UNCHANGED mathVars

\* Line 155.
NormalOrder ==
    /\ pc = "order_call"
    /\ trace' = Append(trace, "normal_ordered")
    /\ pc' = "order_end"
    /\ UNCHANGED <<scenario, n_qubits, term_length, randn_count>>
    /\ UNCHANGED genVars
    /\ UNCHANGED mathVars

\* Lines 156-159.
EndNormalOrder ==
    /\ pc = "order_end"
    /\ trace' = Append(trace, "time")
    /\ pc' = "done"
    /\ UNCHANGED <<scenario, n_qubits, term_length, randn_count>>
    /\ UNCHANGED genVars
    /\ UNCHANGED mathVars

-----------------------------------------------------------------------------
(* benchmark_jordan_wigner_sparse *)

\* Line 173.
GetFermionOperator ==
    /\ pc = "sparse_convert"
    /\ trace' = Append(trace, "get_fermion_operator")
    /\ pc' = "sparse_start"
    /\ UNCHANGED <<scenario, n_qubits, term_length, randn_count>>
    /\ UNCHANGED genVars
    /\ UNCHANGED mathVars

\* Line 176.
StartSparse ==
    /\ pc = "sparse_start"
    /\ trace' = Append(trace, "time")
    /\ pc' = "sparse_call"
    /\ UNCHANGED <<scenario, n_qubits, term_length, randn_count>>
    /\ UNCHANGED genVars
    /\ UNCHANGED mathVars

\* Line 177.
JordanWignerSparse ==
    /\ pc = "sparse_call"
    /\ trace' = Append(trace, "jordan_wigner_sparse")
    /\ pc' = "sparse_end"
    /\ UNCHANGED <<scenario, n_qubits, term_length, randn_count>>
    /\ UNCHANGED genVars
    /\ UNCHANGED mathVars

\* Lines 178-179.
EndSparse ==
    /\ pc = "sparse_end"
    /\ trace' = Append(trace, "time")
    /\ pc' = "done"
    /\ UNCHANGED <<scenario, n_qubits, term_length, randn_count>>
    /\ UNCHANGED genVars
    /\ UNCHANGED mathVars

-----------------------------------------------------------------------------

\* One statement other than an iteration of a while loop.
Statement ==
    \/ Initialize
    \/ OneBodyTerm
    \/ OneBodySkip
    \/ SkipZeroTerm
    \/ SkipConjugate
    \/ AddTwoBody
    \/ BuildOperator
    \/ StartJordanWigner
    \/ JordanWigner
    \/ EndJordanWigner
    \/ \E a \in Operators, b \in Operators : InitOperators(a, b)
    \/ \E v \in Operators : DrawA(v)
    \/ AppendA
    \/ \E v \in Operators : DrawB(v)
    \/ AppendB
    \/ MakeTermA
    \/ MakeTermB
    \/ SumTerms
    \/ StartMath
    \/ Exponentiate
    \/ EndMath
    \/ StartNormalOrder
    \/ NormalOrder
    \/ EndNormalOrder
    \/ GetFermionOperator
    \/ StartSparse
    \/ JordanWignerSparse
    \/ EndSparse

Next ==
    \/ Statement
    \/ \E v \in AllOperators : RedrawA(v)
    \/ \E v \in AllOperators : RedrawB(v)

Spec == Init /\ [][Next]_vars

\* The interpreter executes the statements one after the other, and the
\* random source is fair: as long as a while loop keeps sampling, each value
\* of (randint(n_qubits), randint(2)) is sampled again and again.
FairSpec ==
    /\ Spec
    /\ WF_vars(Statement)
    /\ \A v \in AllOperators : WF_vars(RedrawA(v)) /\ WF_vars(RedrawB(v))

-----------------------------------------------------------------------------
(* Properties of artificial_molecular_operator *)

\* artificial_molecular_operator has returned its operator to the benchmark.
Returned ==
    /\ scenario \in {"A", "C"}
    /\ pc \notin {"gen_init", "one_body", "two_body", "gen_return"}

\* The tensor exists: line 30 has run.
InGenerator == scenario \in {"A", "C"} /\ pc # "gen_init"

NonZeroTerm(c) == c[1] # c[2] /\ c[3] # c[4]

\* C1: after every iteration of the innermost loop, and in the returned
\* operator, two_body[p,q,r,s] = two_body[s,r,q,p] for every quadruple of
\* indices, whatever cells were overwritten by later samples.
C1_ConjugateSymmetry ==
    InGenerator =>
        \A c \in Quads :
            two_body_coefficients[c] =
                two_body_coefficients[<<c[4], c[3], c[2], c[1]>>]

\* The loops are running and some cell written from one sample has since
\* been overwritten from a later one.
C1_Witness ==
    /\ pc = "two_body"
    /\ \E c \in assigned :
        /\ <<c[4], c[3], c[2], c[1]>> \in assigned
        /\ <<c[4], c[3], c[2], c[1]>> # c
        /\ two_body_coefficients[c] # 0

\* C2: a cell with p = q or r = s is never written (it is 0 at every point
\* of the run), and in the returned operator every cell with p # q and
\* r # s has been written (it holds a sample).
C2_WrittenIffNonZeroTerm ==
    InGenerator =>
        \A c \in Quads :
            /\ ~NonZeroTerm(c) => two_body_coefficients[c] = 0
            /\ Returned /\ NonZeroTerm(c) => two_body_coefficients[c] # 0

\* An operator on four modes was returned, in which the cell (3,2,1,0) was
\* never the quadruple of an assignment and holds the copy of a sample.
C2_Witness ==
    /\ Returned
    /\ n_qubits >= 4
    /\ <<3, 2, 1, 0>> \notin assigned
    /\ two_body_coefficients[<<3, 2, 1, 0>>] # 0
    /\ two_body_coefficients[<<0, 0, 1, 2>>] = 0

\* C3: in the returned operator one_body[p,q] = 0 when p and q differ in
\* parity, and one_body[p,q] = one_body[q,p] when they agree.
C3_OneBodySpinBlocks ==
    Returned =>
        \A pp \in Modes, qq \in Modes :
            IF pp % 2 # qq % 2
            THEN one_body_coefficients[<<pp, qq>>] = 0
            ELSE one_body_coefficients[<<pp, qq>>] =
                     one_body_coefficients[<<qq, pp>>]

\* The returned cell (0,2) holds a sample taken after the one of (1,1): it
\* was sampled at (0,2) and again at (2,0).
C3_Witness ==
    /\ Returned
    /\ n_qubits >= 3
    /\ one_body_coefficients[<<0, 1>>] = 0
    /\ one_body_coefficients[<<0, 2>>] > one_body_coefficients[<<1, 1>>]
    /\ one_body_coefficients[<<0, 2>>] = one_body_coefficients[<<2, 0>>]

\* C4: in a finished run, for every quadruple with p # q and r # s, lines
\* 66-68 were executed at exactly one of (p,q,r,s) and (s,r,q,p).
C4_OneSamplePerOrbit ==
    Returned =>
        \A c \in Quads :
            NonZeroTerm(c) =>
                Cardinality({c, <<c[4], c[3], c[2], c[1]>>} \cap assigned) = 1

\* C5 as stated: the returned tensor has the eight-fold symmetry of real
\* two-electron integrals.
C5_EightFoldSymmetry ==
    Returned =>
        \A c \in Quads :
            LET v == two_body_coefficients[c]
                pp == c[1]
                qq == c[2]
                rr == c[3]
                ss == c[4]
            IN  /\ v = two_body_coefficients[<<ss, rr, qq, pp>>]
                /\ v = two_body_coefficients[<<qq, pp, ss, rr>>]
                /\ v = two_body_coefficients[<<rr, ss, pp, qq>>]
                /\ v = two_body_coefficients[<<ss, qq, rr, pp>>]
                /\ v = two_body_coefficients[<<pp, rr, qq, ss>>]
                /\ v = two_body_coefficients[<<qq, ss, pp, rr>>]
                /\ v = two_body_coefficients[<<rr, pp, ss, qq>>]

\* C5 amended: of the eight index permutations, the returned tensor is
\* symmetric under (p,q,r,s) -> (s,r,q,p): every cell holds the same value
\* as its image, and that value is a sample when p # q and r # s.
C5_ReturnedTwoFoldSymmetry ==
    Returned =>
        \A c \in Quads :
            /\ two_body_coefficients[<<c[4], c[3], c[2], c[1]>>] =
                   two_body_coefficients[c]
            /\ NonZeroTerm(c) => two_body_coefficients[c] # 0

\* An operator on four modes was returned: (0,1,2,3) and (3,2,1,0) hold one
\* sample, (1,0,3,2) holds another.
C5_Witness ==
    /\ Returned
    /\ n_qubits >= 4
    /\ two_body_coefficients[<<0, 1, 2, 3>>] # 0
    /\ two_body_coefficients[<<0, 1, 2, 3>>] =
           two_body_coefficients[<<3, 2, 1, 0>>]
    /\ two_body_coefficients[<<0, 1, 2, 3>>] #
           two_body_coefficients[<<1, 0, 3, 2>>]

\* C8: among the quadruples with p # q, r # s, (p,q,r,s) # (s,r,q,p) and
\* four or two distinct indices, lines 66-68 are executed at exactly the
\* quadruples that pass the rule (min(r,s) > min(p,q) for four distinct
\* indices, q >= p for two), and the rule passes exactly one of (p,q,r,s)
\* and (s,r,q,p).
C8_OneRepresentative ==
    Returned =>
        \A c \in Quads :
            LET m == <<c[4], c[3], c[2], c[1]>>
                Passes(d) ==
                    IF Cardinality({d[1], d[2], d[3], d[4]}) = 4
                    THEN Min(d[3], d[4]) > Min(d[1], d[2])
                    ELSE d[2] >= d[1]
            IN  NonZeroTerm(c) /\ c # m
                    /\ Cardinality({c[1], c[2], c[3], c[4]}) \in {2, 4} =>
                /\ (c \in assigned) <=> Passes(c)
                /\ Passes(c) <=> ~Passes(m)

\* An operator on four modes was returned: of the pair (0,1,2,3), (3,2,1,0)
\* and of the pair (0,1,0,1), (1,0,1,0) the first was assigned and the
\* second skipped.
C8_Witness ==
    /\ Returned
    /\ n_qubits >= 4
    /\ <<0, 1, 2, 3>> \in assigned /\ <<3, 2, 1, 0>> \notin assigned
    /\ <<0, 1, 0, 1>> \in assigned /\ <<1, 0, 1, 0>> \notin assigned

-----------------------------------------------------------------------------
(* Properties of benchmark_fermion_math_and_normal_order *)

NoRepeat(ops) == \A i \in 1 .. (Len(ops) - 1) : ops[i] # ops[i + 1]

\* C6: at every point of the construction loop, and in the terms given to
\* FermionOperator, operators_a and operators_b hold no two consecutive
\* identical (mode, flag) pairs.
C6_NoConsecutiveRepeat ==
    /\ NoRepeat(operators_a)
    /\ NoRepeat(operators_b)
    /\ fermion_term_a # None => NoRepeat(fermion_term_a[1])
    /\ fermion_term_b # None => NoRepeat(fermion_term_b[1])

\* Both terms were given to FermionOperator with two operators each, on one
\* mode, where the only way not to repeat is to alternate the flag.
C6_Witness ==
    /\ fermion_term_a # None /\ fermion_term_b # None
    /\ n_qubits = 1
    /\ Len(fermion_term_a[1]) >= 2
    /\ Len(fermion_term_b[1]) >= 2

\* C7: each of the two terms given to FermionOperator has exactly
\* term_length operators.
C7_TermLength ==
    /\ fermion_term_a # None => Len(fermion_term_a[1]) = term_length
    /\ fermion_term_b # None => Len(fermion_term_b[1]) = term_length

\* C10: with more than one mode and a fair random source, from every point
\* of the construction of the terms (the while loops of lines 128 and 136
\* included, which are therefore left) the construction ends, after exactly
\* term_length iterations of the loop of line 123.
C10_ConstructionTerminates ==
    (n_qubits > 1 /\ pc \in {"math_init", "draw_a", "while_a", "draw_b",
                             "while_b"})
        ~> (pc = "term_a" /\ operator_number = term_length)

\* The while loop of line 128 is reached with a sample that repeats the
\* last operator, on more than one mode: it has to sample again.
C10_Witness ==
    /\ n_qubits > 1
    /\ pc = "while_a"
    /\ operator_a = operators_a[Len(operators_a)]

-----------------------------------------------------------------------------
(* Properties of the three benchmarks *)

TimedCalls == {"jordan_wigner", "power", "normal_ordered",
               "jordan_wigner_sparse"}
InputEvents == {"random", "InteractionOperator", "FermionOperator", "add",
                "get_fermion_operator"}
\* The number of timestamps taken before the i-th event.
TimestampsBefore(i) ==
    Cardinality({j \in 1 .. (i - 1) : trace[j] = "time"})
IsTimedCall(e) == e \in TimedCalls

\* C9: every random sample, constructor call, sum and conversion comes
\* before the first timestamp; every start timestamp is followed by exactly
\* one external call, one of the four that are timed, and then by the end
\* timestamp; none of the four is called outside such an interval; and a
\* finished benchmark has timed the calls of its scenario, one interval each.
C9_OneCallPerInterval ==
    /\ \A i \in 1 .. Len(trace) :
        /\ trace[i] \in InputEvents => TimestampsBefore(i) = 0
        /\ trace[i] \in TimedCalls =>
            /\ TimestampsBefore(i) % 2 = 1
            /\ trace[i - 1] = "time"
            /\ i < Len(trace) => trace[i + 1] = "time"
        /\ trace[i] = "time" /\ TimestampsBefore(i) % 2 = 0
               /\ i < Len(trace) => trace[i + 1] \in TimedCalls
    /\ pc = "done" =>
        /\ TimestampsBefore(Len(trace) + 1) % 2 = 0
        /\ SelectSeq(trace, IsTimedCall) =
               CASE scenario = "A" -> <<"jordan_wigner">>
                 [] scenario = "B" -> <<"power", "normal_ordered">>
                 [] scenario = "C" -> <<"jordan_wigner_sparse">>

\* benchmark_fermion_math_and_normal_order has finished after sampling
\* operators in its loop, with both of its intervals in the trace.
C9_Witness ==
    /\ pc = "done"
    /\ scenario = "B"
    /\ term_length >= 1
    /\ TimestampsBefore(Len(trace) + 1) = 4

====
